---- MODULE Spec2Model ----
(***************************************************************************)
(* dek-creator/app.mjs: the DEK provisioning handler, in its two variants  *)
(* (connection URI from the secret store, lines 1-122; from the            *)
(* environment, lines 124-231).  Every invocation of lambdaHandler is a    *)
(* process whose steps are the stretches of code between two await points. *)
(***************************************************************************)
EXTENDS Integers, Sequences, FiniteSets

\* ------------------------------------------------------------------ bounds
\* Invocations of lambdaHandler sharing one execution context.
NumInvocations == 2

Invs == 1..NumInvocations

\* ------------------------------------------------------------ the request
\* A property of the event that is not there reads as undefined.
Undefined == "undefined"

FieldNames == <<"kmsKeyArn", "kmsKeyRegion", "dekAltName">>

Request(arn, region, alt) ==
    [shape |-> "object", kmsKeyArn |-> arn, kmsKeyRegion |-> region, dekAltName |-> alt]

\* lambdaHandler(undefined): no event at all.
AbsentEvent == [shape |-> "undefined"]

\* An event whose property read throws a value that JSON.stringify cannot
\* serialise, e.g. { get kmsKeyArn() { throw 1n } }.
ThrowingEvent == [shape |-> "throwing"]

ValidEvent == Request("arn:key/abc", "ap-south-1", "service-x-dek")

Events ==
    { AbsentEvent, ThrowingEvent, ValidEvent,
      Request("", "ap-south-1", "service-x-dek"),
      Request("arn:key/abc", Undefined, "service-x-dek"),
      Request("arn:key/abc", "ap-south-1", ""),
      Request(Undefined, Undefined, Undefined) }

\* !x of JavaScript for the values a field takes here.
Falsy(v) == v = Undefined \/ v = ""

AllPresent(ev) ==
    /\ ev.shape = "object"
    /\ ~Falsy(ev.kmsKeyArn) /\ ~Falsy(ev.kmsKeyRegion) /\ ~Falsy(ev.dekAltName)

\* ------------------------------------------------------------ thrown values
\* A thrown value: its constructor, its message (a non-enumerable property
\* of an Error), its enumerable own properties, and whether JSON.stringify
\* can serialise it at all.
Thrown(ctor, message, own, serialisable) ==
    [ctor |-> ctor, message |-> message, own |-> own, serialisable |-> serialisable]

NoMessage == [text |-> "none"]

\* The template literal of the validation throw: it spells the three field
\* names, each followed by the value read from the event.
ValidationMessage(ev) ==
    [text |-> "One of the parameter is not provided",
     kmsKeyArn |-> ev.kmsKeyArn, kmsKeyRegion |-> ev.kmsKeyRegion,
     dekAltName |-> ev.dekAltName]

ValidationError(ev) == Thrown("Error", ValidationMessage(ev), {}, TRUE)

DestructureTypeError ==
    Thrown("TypeError", [text |-> "Cannot destructure property of undefined"], {}, TRUE)

UnserialisableThrow == Thrown("BigInt", NoMessage, {}, FALSE)

NullClientTypeError ==
    Thrown("TypeError", [text |-> "Cannot read properties of null"], {}, TRUE)

\* What the collaborators reject with: Error objects carrying plain data.
SecretErrors ==
    { Thrown("ResourceNotFoundException", [text |-> "secret not found"],
             {<<"name", "ResourceNotFoundException">>, <<"$fault", "client">>}, TRUE),
      Thrown("SyntaxError", [text |-> "Unexpected token in JSON"], {}, TRUE) }

ConnectErrors ==
    { Thrown("MongoServerSelectionError", [text |-> "connection timed out"],
             {<<"reason", "TopologyDescription">>}, TRUE) }

CredentialErrors ==
    { Thrown("CredentialsProviderError", [text |-> "Could not load credentials"],
             {<<"name", "CredentialsProviderError">>, <<"tryNextLink", "false">>}, TRUE) }

KeyErrors ==
    { Thrown("MongoCryptError", [text |-> "KMS request failed"], {}, TRUE),
      Thrown("MongoServerError", [text |-> "E11000 duplicate key"],
             {<<"code", "11000">>}, TRUE) }

\* JSON.stringify(err) of the catch block: the enumerable own properties and
\* nothing else; the message of an Error is not among them.
JSONStringifyError(err) == [json |-> err.own]

\* ------------------------------------------------------ uuid (the import)
Bytes16 == 1..16

HexDigit == <<"0", "1", "2", "3", "4", "5", "6", "7",
              "8", "9", "a", "b", "c", "d", "e", "f">>

HexChars == {HexDigit[i] : i \in 1..16}

\* byteToHex[b]: the two lower-case hex digits of a byte.
ByteToHex(b) == <<HexDigit[(b \div 16) + 1], HexDigit[(b % 16) + 1]>>

RECURSIVE HexOf(_, _, _)
HexOf(arr, from, to) ==
    IF from > to THEN <<>> ELSE ByteToHex(arr[from]) \o HexOf(arr, from + 1, to)

\* unsafeStringify(arr) of the uuid package: bytes 0-3, 4-5, 6-7, 8-9, 10-15
\* in hex, joined by hyphens (8-4-4-4-12).
UnsafeStringify(arr) ==
    HexOf(arr, 1, 4) \o <<"-">> \o HexOf(arr, 5, 6) \o <<"-">> \o HexOf(arr, 7, 8)
        \o <<"-">> \o HexOf(arr, 9, 10) \o <<"-">> \o HexOf(arr, 11, 16)

\* rnds[6] = (rnds[6] & 0x0f) | 0x40; rnds[8] = (rnds[8] & 0x3f) | 0x80
\* (the arrays of this module are 1-based).
SetVersionBits(rnds) ==
    [i \in Bytes16 |->
        IF i = 7 THEN (rnds[i] % 16) + 64
        ELSE IF i = 9 THEN (rnds[i] % 64) + 128
        ELSE rnds[i]]

\* The 16-byte values the model draws from: byte k repeated, k = 17, 34, ...
Fill(k) == [i \in Bytes16 |-> 17 * k]

\* rng() of the uuid package: 16 random bytes.  One more value than there
\* are invocations, so that a draw always has a choice.
RngPool == {Fill(k) : k \in 1..(NumInvocations + 1)}

\* The key identifiers libmongocrypt generates for new data keys (_id of the
\* key-vault document, a version-4 UUID as BSON Binary subtype 4).
KeyIdPool == {SetVersionBits(Fill(k)) : k \in 1..(NumInvocations + 1)}

\* What the import of line 5/128 binds to the name stringify: v4 of the
\* uuid package.  Called as stringify(dataKey.buffer), the buffer lands in
\* the options parameter; it has neither a random nor an rng property, so
\* the bytes come from rng(), and with no buf argument the result is
\* unsafeStringify(rnds).  The key identifier is not read.
UuidV4(options, rnds) == UnsafeStringify(SetVersionBits(rnds))

\* The name the handler calls.
stringify(buffer, rnds) == UuidV4(buffer, rnds)

\* ------------------------------------------------------------------ state
VARIABLES
    variant,             \* which copy of the handler is deployed
    strictCtor,          \* the installed mongodb-client-encryption build
    pc,                  \* per invocation: the await it is suspended at
    event,               \* per invocation: the event it was called with
    result,              \* per invocation: what the returned promise settled to
    failedAt,            \* per invocation: the step that threw, if any
    conn,                \* per invocation: the MongoClient its connect returned
    ownEnc,              \* per invocation: the ClientEncryption it constructed
    usedEnc,             \* per invocation: the object it called createDataKey on
    calls,               \* per invocation: calls made to each collaborator
    rejections,          \* per invocation: the collaborators that rejected
    handed,              \* per invocation: the client given to ClientEncryption
    dataKey,             \* per invocation: the key id createDataKey returned
    encryptionInstance,  \* module-level binding, line 134
    dbClient,            \* module-level binding, line 137
    keyVault,            \* documents of encryption.__keyVault
    rngDrawn             \* the values rng() has returned

vars == <<variant, strictCtor, pc, event, result, failedAt, conn, ownEnc, usedEnc,
          calls, rejections, handed, dataKey, encryptionInstance, dbClient, keyVault, rngDrawn>>

Variants == {"secret", "env"}

\* null, for a handle and for an invocation that owns nothing.
Null == 0

NoEnc == [owner |-> Null, client |-> Null]

NoCalls == [secret |-> 0, connect |-> 0, cred |-> 0, ctor |-> 0, key |-> 0]

NoKey == [i \in Bytes16 |-> 0]

Pending == [kind |-> "pending"]

\* { statusCode, body }: the body is kept parsed, as the object given to
\* JSON.stringify.
Envelope(status, body) == [kind |-> "returned", statusCode |-> status, body |-> body]

Rejected(reason) == [kind |-> "rejected", reason |-> reason]

Init ==
    /\ variant \in Variants
    /\ strictCtor \in BOOLEAN
    /\ pc = [i \in Invs |-> "idle"]
    /\ event = [i \in Invs |-> AbsentEvent]
    /\ result = [i \in Invs |-> Pending]
    /\ failedAt = [i \in Invs |-> "none"]
    /\ conn = [i \in Invs |-> Null]
    /\ ownEnc = [i \in Invs |-> NoEnc]
    /\ usedEnc = [i \in Invs |-> NoEnc]
    /\ calls = [i \in Invs |-> NoCalls]
    /\ rejections = [i \in Invs |-> {}]
    /\ handed = [i \in Invs |-> Null]
    /\ dataKey = [i \in Invs |-> NoKey]
    /\ encryptionInstance = NoEnc
    /\ dbClient = Null
    /\ keyVault = {}
    /\ rngDrawn = {}

\* ----------------------------------------------------------- the handler
\* The catch block, lines 106-115 / 215-224: the envelope with the caught
\* value given to JSON.stringify; when that call throws, the throw leaves
\* the handler and its promise rejects.
CatchBlock(err) ==
    IF err.serialisable
    THEN Envelope(200, [message |-> "error", error |-> JSONStringifyError(err)])
    ELSE Rejected("TypeError: cannot serialise")

\* A throw inside the try block at step `where` of invocation i.
Throw(i, err, where) ==
    /\ result' = [result EXCEPT ![i] = CatchBlock(err)]
    /\ failedAt' = [failedAt EXCEPT ![i] = where]
    /\ pc' = [pc EXCEPT ![i] = "done"]

Called(i, what) == calls' = [calls EXCEPT ![i][what] = @ + 1]

\* initializeMongodb, lines 33-40 / 143-150: new MongoClient(uri) and the
\* call of client.connect(), which the function then awaits.
CallInitializeMongodb(i) ==
    /\ Called(i, "connect")
    /\ pc' = [pc EXCEPT ![i] = "awaitConnect"]
    /\ UNCHANGED <<result, failedAt>>

\* Lines 83-88 / 192-197: the check of the three fields, then the connection.
ValidateMutantArnOnly(ev) == ~Falsy(ev.kmsKeyArn)
Validate(ev) ==
    ~(Falsy(ev.kmsKeyArn) \/ Falsy(ev.kmsKeyRegion) \/ Falsy(ev.dekAltName))

ValidateThenConnect(i, ev) ==
    IF Validate(ev)
    THEN CallInitializeMongodb(i)
    ELSE /\ Throw(i, ValidationError(ev), "validation")
         /\ UNCHANGED calls

\* lambdaHandler is called with ev (invocations are numbered in the order
\* they start).  Line 81 / 191 reads the three fields; the secret-store
\* variant then calls getSecretManagerData (line 82) and suspends, the
\* environment variant validates at once (line 192).
Invoke(i, ev) ==
    /\ pc[i] = "idle"
    /\ \A j \in Invs : j < i => pc[j] # "idle"
    /\ event' = [event EXCEPT ![i] = ev]
    /\ CASE ev.shape = "undefined" ->
              Throw(i, DestructureTypeError, "destructure") /\ UNCHANGED calls
         [] ev.shape = "throwing" ->
              Throw(i, UnserialisableThrow, "destructure") /\ UNCHANGED calls
         [] OTHER ->
              IF variant = "secret"
              THEN /\ Called(i, "secret")
                   /\ pc' = [pc EXCEPT ![i] = "awaitSecret"]
                   /\ UNCHANGED <<result, failedAt>>
              ELSE ValidateThenConnect(i, ev)
    /\ UNCHANGED <<variant, strictCtor, rejections, handed, conn, ownEnc, usedEnc, dataKey,
                   encryptionInstance, dbClient, keyVault, rngDrawn>>

\* getSecretManagerData resolved (lines 25-26): validation, lines 83-87,
\* then initializeMongodb(secrets.MONGODB_URI), line 88.
SecretResolved(i) ==
    /\ pc[i] = "awaitSecret"
    /\ ValidateThenConnect(i, event[i])
    /\ UNCHANGED <<variant, strictCtor, rejections, handed, event, conn, ownEnc, usedEnc, dataKey,
                   encryptionInstance, dbClient, keyVault, rngDrawn>>

\* What the handler does when getSecretManagerData rejects (send failed, or
\* JSON.parse threw): line 82 is inside the try, so the catch block runs.
SecretRejectionMutantSwallowed(i, err) == ValidateThenConnect(i, event[i])
SecretRejection(i, err) == Throw(i, err, "secret") /\ UNCHANGED calls

SecretRejected(i, err) ==
    /\ pc[i] = "awaitSecret"
    /\ SecretRejection(i, err)
    /\ rejections' = [rejections EXCEPT ![i] = @ \cup {"secret"}]
    /\ UNCHANGED <<variant, strictCtor, handed, event, conn, ownEnc, usedEnc, dataKey,
                   encryptionInstance, dbClient, keyVault, rngDrawn>>

\* client.connect() resolved: initializeMongodb returns the client.  Line 88
\* binds it to the handler's dbClient; line 197 drops it.  initialize then
\* calls provider() (line 52 / 162) and suspends.
ConnectResolved(i) ==
    /\ pc[i] = "awaitConnect"
    /\ conn' = [conn EXCEPT ![i] = i]
    /\ Called(i, "cred")
    /\ pc' = [pc EXCEPT ![i] = "awaitCred"]
    /\ UNCHANGED <<variant, strictCtor, rejections, handed, event, result, failedAt, ownEnc, usedEnc,
                   dataKey, encryptionInstance, dbClient, keyVault, rngDrawn>>

\* What initializeMongodb does when client.connect() rejects: its catch
\* rethrows (lines 41-43 / 151-153), and the handler's catch block runs.
ConnectRejectionMutantRetry(i, err) ==
    IF calls[i].connect < 2
    THEN CallInitializeMongodb(i)
    ELSE Throw(i, err, "connect") /\ UNCHANGED calls
ConnectRejection(i, err) == Throw(i, err, "connect") /\ UNCHANGED calls

ConnectRejected(i, err) ==
    /\ pc[i] = "awaitConnect"
    /\ ConnectRejection(i, err)
    /\ rejections' = [rejections EXCEPT ![i] = @ \cup {"connect"}]
    /\ UNCHANGED <<variant, strictCtor, handed, event, conn, ownEnc, usedEnc, dataKey,
                   encryptionInstance, dbClient, keyVault, rngDrawn>>

\* The client initialize hands to new ClientEncryption: its parameter
\* (line 50, bound at line 89 to the handler's dbClient) or the module-level
\* dbClient (line 163), which no line assigns.
ClientArgument(i) == IF variant = "secret" THEN conn[i] ELSE dbClient

\* provider() resolved: new ClientEncryption(client, ...), lines 53-62 /
\* 163-172.  A build whose constructor reads client.topology throws on a
\* null client; otherwise the object is built, the environment variant
\* stores it in the module-level binding, and initialize returns.
CredResolved(i) ==
    /\ pc[i] = "awaitCred"
    /\ Called(i, "ctor")
    /\ handed' = [handed EXCEPT ![i] = ClientArgument(i)]
    /\ IF ClientArgument(i) = Null /\ strictCtor
       THEN /\ result' = [result EXCEPT ![i] = CatchBlock(NullClientTypeError)]
            /\ failedAt' = [failedAt EXCEPT ![i] = "ctor"]
            /\ pc' = [pc EXCEPT ![i] = "done"]
            /\ UNCHANGED <<ownEnc, encryptionInstance>>
       ELSE /\ ownEnc' = [ownEnc EXCEPT ![i] = [owner |-> i, client |-> ClientArgument(i)]]
            /\ encryptionInstance' =
                   IF variant = "env" THEN [owner |-> i, client |-> ClientArgument(i)]
                   ELSE encryptionInstance
            /\ pc' = [pc EXCEPT ![i] = "initReturned"]
            /\ UNCHANGED <<result, failedAt>>
    /\ UNCHANGED <<variant, strictCtor, rejections, event, conn, usedEnc, dataKey, dbClient,
                   keyVault, rngDrawn>>

\* provider() rejected: initialize rejects, the catch block runs.
CredRejected(i, err) ==
    /\ pc[i] = "awaitCred"
    /\ Throw(i, err, "cred")
    /\ rejections' = [rejections EXCEPT ![i] = @ \cup {"cred"}]
    /\ UNCHANGED <<variant, strictCtor, handed, event, conn, ownEnc, usedEnc, calls, dataKey,
                   encryptionInstance, dbClient, keyVault, rngDrawn>>

\* The object line 94 / 203 calls createDataKey on: the const of line 89,
\* or whatever the module-level binding holds when the handler resumes.
InstanceRead(i) == IF variant = "secret" THEN ownEnc[i] ELSE encryptionInstance

\* The handler resumes after await initialize(...): lines 90-97 / 199-206.
InitReturned(i) ==
    /\ pc[i] = "initReturned"
    /\ usedEnc' = [usedEnc EXCEPT ![i] = InstanceRead(i)]
    /\ Called(i, "key")
    /\ pc' = [pc EXCEPT ![i] = "awaitKey"]
    /\ UNCHANGED <<variant, strictCtor, rejections, handed, event, result, failedAt, conn, ownEnc,
                   dataKey, encryptionInstance, dbClient, keyVault, rngDrawn>>

\* encryptionInstance.createDataKey("aws", { masterKey, keyAltNames }),
\* lines 94-97 / 203-206, when it succeeds: one more document in the key
\* vault, whatever alternate names the vault already holds.
createDataKeyMutantDedup(vault, kid, ev, enc) ==
    IF \E d \in vault : d.keyAltNames = <<ev.dekAltName>>
    THEN vault
    ELSE vault \cup {[id |-> kid, keyAltNames |-> <<ev.dekAltName>>,
                      masterKey |-> [key |-> ev.kmsKeyArn, region |-> ev.kmsKeyRegion],
                      via |-> enc.client]}
createDataKey(vault, kid, ev, enc) ==
    vault \cup {[id |-> kid, keyAltNames |-> <<ev.dekAltName>>,
                 masterKey |-> [key |-> ev.kmsKeyArn, region |-> ev.kmsKeyRegion],
                 via |-> enc.client]}

\* Identifiers already in the vault: _id is unique there.
VaultIds == {d.id : d \in keyVault}

\* createDataKey resolved with the new key's id; lines 98-105 / 207-214
\* render a UUID and return the success envelope.  rng() does not repeat a
\* value (122 random bits per draw).
KeyResolved(i, kid, rnds) ==
    /\ pc[i] = "awaitKey"
    /\ usedEnc[i].client # Null
    /\ kid \in KeyIdPool \ VaultIds
    /\ rnds \in RngPool \ rngDrawn
    /\ keyVault' = createDataKey(keyVault, kid, event[i], usedEnc[i])
    /\ dataKey' = [dataKey EXCEPT ![i] = kid]
    /\ rngDrawn' = rngDrawn \cup {rnds}
    /\ result' = [result EXCEPT ![i] =
                      Envelope(200, [dataKeyUUID |-> stringify(kid, rnds)])]
    /\ pc' = [pc EXCEPT ![i] = "done"]
    /\ UNCHANGED <<variant, strictCtor, rejections, handed, event, failedAt, conn, ownEnc, usedEnc, calls,
                   encryptionInstance, dbClient>>

\* createDataKey rejected: KMS or the insert failed, or the object was
\* built over a null client and has no key vault to write to.
KeyRejected(i, err) ==
    /\ pc[i] = "awaitKey"
    /\ err = NullClientTypeError => usedEnc[i].client = Null
    /\ Throw(i, err, IF err = NullClientTypeError THEN "keyVaultNull" ELSE "key")
    /\ rejections' = [rejections EXCEPT ![i] =
                          IF err = NullClientTypeError THEN @ ELSE @ \cup {"key"}]
    /\ UNCHANGED <<variant, strictCtor, handed, event, conn, ownEnc, usedEnc, calls, dataKey,
                   encryptionInstance, dbClient, keyVault, rngDrawn>>

Next ==
    \/ \E i \in Invs, ev \in Events : Invoke(i, ev)
    \/ \E i \in Invs : SecretResolved(i)
    \/ \E i \in Invs, err \in SecretErrors : SecretRejected(i, err)
    \/ \E i \in Invs : ConnectResolved(i)
    \/ \E i \in Invs, err \in ConnectErrors : ConnectRejected(i, err)
    \/ \E i \in Invs : CredResolved(i)
    \/ \E i \in Invs, err \in CredentialErrors : CredRejected(i, err)
    \/ \E i \in Invs : InitReturned(i)
    \/ \E i \in Invs, kid \in KeyIdPool, rnds \in RngPool : KeyResolved(i, kid, rnds)
    \/ \E i \in Invs, err \in KeyErrors \cup {NullClientTypeError} : KeyRejected(i, err)

Spec == Init /\ [][Next]_vars

\* ================================================================ claims
Started(i) == pc[i] # "idle"

Done(i) == pc[i] = "done"

IsSuccess(r) == r.kind = "returned" /\ DOMAIN r.body = {"dataKeyUUID"}

IsErrorEnvelope(r) ==
    /\ r.kind = "returned"
    /\ DOMAIN r.body = {"message", "error"}
    /\ r.body.message = "error"

\* 8-4-4-4-12 lower-case hex digits.
CanonicalUUID(str) ==
    /\ Len(str) = 36
    /\ \A p \in 1..36 :
          IF p \in {9, 14, 19, 24} THEN str[p] = "-" ELSE str[p] \in HexChars

NoDownstreamCalls(i) ==
    calls[i].cred = 0 /\ calls[i].ctor = 0 /\ calls[i].key = 0

Successes == {i \in Invs : IsSuccess(result[i])}

\* The fields of a request that the validation finds missing.
MissingFields(ev) ==
    IF ev.shape = "object"
    THEN {FieldNames[k] : k \in {n \in 1..3 : Falsy(ev[FieldNames[n]])}}
    ELSE {}

\* The error string of an envelope names field f: it carries the validation
\* message, which spells the field.
NamesField(text, f) ==
    \E p \in text.json : p[1] = "message" /\ f \in DOMAIN p[2]

\* C1: a request with all three fields, none of whose collaborators
\* rejected, ends in the success envelope: statusCode 200 and a body with
\* only dataKeyUUID, a canonical UUID string - in both variants.
C1_ValidRequestSucceeds ==
    \A i \in Invs :
        (Done(i) /\ AllPresent(event[i]) /\ rejections[i] = {})
            => /\ IsSuccess(result[i])
               /\ result[i].statusCode = 200
               /\ CanonicalUUID(result[i].body.dataKeyUUID)

\* C2: a request with a missing or empty field ends in the error envelope,
\* and its error string names every missing field.
C2_ValidationErrorNamesFields ==
    \A i \in Invs :
        (Done(i) /\ MissingFields(event[i]) # {})
            => /\ IsErrorEnvelope(result[i])
               /\ \A f \in MissingFields(event[i]) :
                      NamesField(result[i].body.error, f)

\* C3: the dataKeyUUID of a success envelope is the canonical rendering of
\* the key id createDataKey returned in that invocation.
C3_UuidRendersKeyId ==
    \A i \in Successes :
        result[i].body.dataKeyUUID = UnsafeStringify(dataKey[i])

\* C4: every invocation that ends, ends by returning an envelope with
\* statusCode 200; its promise never rejects.
C4_AlwaysReturns200 ==
    \A i \in Invs :
        Done(i) => result[i].kind = "returned" /\ result[i].statusCode = 200

\* C5: an invocation whose request misses a field never calls connect, and
\* so never resolves credentials, builds a ClientEncryption or calls
\* createDataKey - in both variants.
C5_MissingFieldNoConnection ==
    \A i \in Invs :
        (Started(i) /\ ~AllPresent(event[i]))
            => calls[i].connect = 0 /\ conn[i] = Null /\ NoDownstreamCalls(i)

C5_Witness ==
    \E i \in Invs :
        /\ variant = "secret"
        /\ MissingFields(event[i]) # {}
        /\ calls[i].secret = 1
        /\ failedAt[i] = "validation"
        /\ Done(i)

\* C6: every invocation calls createDataKey on the ClientEncryption object
\* that it constructed itself, never on one another invocation stored.
C6_CallsOwnInstance ==
    \A i \in Invs : calls[i].key > 0 => usedEnc[i].owner = i

\* C7: when secret resolution fails, the invocation returns the error
\* envelope and makes no connection attempt and no key-management call,
\* whatever the request.
C7_SecretFailureStopsHandler ==
    \A i \in Invs :
        "secret" \in rejections[i]
            => /\ IsErrorEnvelope(result[i])
               /\ calls[i].connect = 0 /\ conn[i] = Null
               /\ NoDownstreamCalls(i)

C7_Witness ==
    \E i \in Invs :
        /\ "secret" \in rejections[i]
        /\ AllPresent(event[i])
        /\ Done(i)
        /\ \E j \in Invs : j # i /\ "secret" \in rejections[j] /\ ~AllPresent(event[j])

\* C8: when client.connect rejects, the invocation returns the error
\* envelope, has attempted the connection exactly once, and resolves no
\* credentials, builds no ClientEncryption and calls no createDataKey.
C8_ConnectFailureStopsHandler ==
    \A i \in Invs :
        "connect" \in rejections[i]
            => /\ IsErrorEnvelope(result[i])
               /\ calls[i].connect = 1 /\ conn[i] = Null
               /\ NoDownstreamCalls(i)

C8_Witness ==
    \E i \in Invs :
        /\ "connect" \in rejections[i]
        /\ Done(i)
        /\ failedAt[i] = "connect"

C10_ClientIsOwnConnection ==
    \A i \in Invs :
        calls[i].ctor > 0 => handed[i] # Null /\ handed[i] = conn[i]

====
